---- MODULE Spec2Model ----
(***************************************************************************)
(* Model of the IR evaluation pipeline of ir_eval_app: the per-document    *)
(* two-stage evaluation (evaluate_file), its retry wrapper, the model      *)
(* admission gate (a semaphore of 2 permits), the in-memory cache index    *)
(* and its persisted blob, and the batch section of main() that fans the   *)
(* documents out on a pool of 4 worker threads.                            *)
(*                                                                         *)
(* Strings are TLA+ strings.  Digests (sha256, md5) are modelled as        *)
(* collision-free tags around their input; document texts and prompt       *)
(* texts of the model contain no ':' so that a digest, like a hex digest,  *)
(* never contains the "::" separator of hash_cache_key.                    *)
(***************************************************************************)
EXTENDS Integers, Sequences, FiniteSets, TLC

\* ------------------------------------------------------------------------
\* Bounds of the model
\* ------------------------------------------------------------------------
NumFiles == 3
MaxBatches == 2
MaxFaultyCalls == 1
MaxLaterBatch == 1
MaxRespLen == 4

\* ------------------------------------------------------------------------
\* Program constants
\* ------------------------------------------------------------------------
\* The status and recommendation labels of the source are Korean strings;
\* each is written here as an ASCII string, distinct labels staying distinct.
MODEL_NAME == "gemini-2.5-flash"
STATUS_PENDING == "pending"
STATUS_RUNNING == "running"
STATUS_SKIPPED == "skipped"
STATUS_DONE == "done"
STATUS_FAILED == "failed"
REC_TOP == "recommend"
REC_MIDDLE == "conditional"
REC_BOTTOM == "hold"
GateThreshold == 80
ScoreCap == 92
TopThreshold == 80
MiddleThreshold == 70
MessageLimit == 300
\* _retry with one more retry than the source's default.
Retries_three == 2 + 1
Retries == 2
\* An admission gate with one more permit than the source's.
SemaphorePermits_three == 2 + 1
SemaphorePermits == 2
MaxWorkers == 4
BASE_PROMPT == "base"
PROMPT_APPENDIX == "appendix"

Files == 1..NumFiles

\* ------------------------------------------------------------------------
\* Raw JSON values of a model output field
\* ------------------------------------------------------------------------
Absent == [t |-> "absent", v |-> 0]
JNull == [t |-> "null", v |-> 0]
JText == [t |-> "text", v |-> 0]
Num(n) == [t |-> "num", v |-> n]

\* float(x or 0): absent, null and 0 give 0.0, a number gives itself, a
\* non-numeric string makes float() raise ValueError.
ToFloat(raw) ==
  IF raw.t = "text" THEN [ok |-> FALSE, v |-> 0]
  ELSE IF raw.t = "num" THEN [ok |-> TRUE, v |-> raw.v]
  ELSE [ok |-> TRUE, v |-> 0]

\* ------------------------------------------------------------------------
\* Fingerprint
\* ------------------------------------------------------------------------
md5_text(text) == "md5<" \o text \o ">"

hash_prompt(text) == "sha256<" \o text \o ">"

RECURSIVE JoinParts(_)
JoinParts(parts) ==
  IF Len(parts) = 0 THEN ""
  ELSE IF Len(parts) = 1 THEN parts[1]
  ELSE parts[1] \o "::" \o JoinParts(Tail(parts))

hash_cache_key(parts) == "sha256<" \o JoinParts(parts) \o ">"

\* A fingerprint that leaves the modification time out.
compute_cache_key_no_mtime(file_id, content, modified_time, step1_hash, step2_hash) ==
  hash_cache_key(<<file_id, md5_text(content), step1_hash, step2_hash, MODEL_NAME>>)

compute_cache_key(file_id, content, modified_time, step1_hash, step2_hash) ==
  hash_cache_key(<<file_id, md5_text(content), modified_time, step1_hash, step2_hash, MODEL_NAME>>)

\* ------------------------------------------------------------------------
\* Scoring
\* ------------------------------------------------------------------------
\* Stage-2 output: null (Stage 2 did not run), the empty object, or an
\* object with the three axis scores.
Step2Null == [kind |-> "null", stage_score |-> Absent, industry_score |-> Absent, bm_score |-> Absent]
Step2Empty == [kind |-> "empty", stage_score |-> Absent, industry_score |-> Absent, bm_score |-> Absent]
Step2Obj(a, b, c) == [kind |-> "obj", stage_score |-> a, industry_score |-> b, bm_score |-> c]

\* Python truthiness of step2_json: None and {} are false.
Truthy(step2) == step2.kind = "obj"

\* Domain of the numeric model outputs explored by the model.
LogicValues == {-10, 0, 45, 69, 79, 80, 85, 100, 135}
AxisValues == {-4, 0, 5, 10}

\* Pairs <<logic_score, stage + industry + bm>> of the domain above for which
\* the double value of 0.7 * logic_score + 0.3 * normalized_step2 lies just
\* below k + 0.5 although the exact value is k + 0.5 (0.7 * 45 and 0.7 * 85
\* are 31.499999999999996 and 59.49999999999999 in double arithmetic).  For
\* every other pair of the domain the double value rounds as the exact one.
FloatBelowHalf ==
  { <<45, -12>>, <<45, -8>>, <<45, -4>>, <<45, -3>>, <<45, 0>>, <<45, 5>>,
    <<45, 10>>, <<45, 11>>, <<45, 20>>,
    <<85, -12>>, <<85, -8>>, <<85, -4>>, <<85, -3>>, <<85, 0>>, <<85, 1>>,
    <<85, 2>>, <<85, 5>>, <<85, 10>>, <<85, 11>>, <<85, 20>> }

\* floor of num/den for den > 0 (num may be negative).
FloorDiv(num, den) == IF num >= 0 THEN num \div den ELSE -((-num + den - 1) \div den)

\* round() of num/den, ties to the even integer (Python 3).
RoundHalfEven(num, den) ==
  LET q == FloorDiv(num, den)
      r == num - q * den
  IN IF 2 * r < den THEN q
     ELSE IF 2 * r > den THEN q + 1
     ELSE IF q % 2 = 0 THEN q ELSE q + 1

Min(a, b) == IF a <= b THEN a ELSE b

Max(a, b) == IF a >= b THEN a ELSE b

\* The float() conversions shared by compute_final_scores and
\* compute_perspective_scores: ok is FALSE when one of them raises.
ScoreInputs(step1, step2) ==
  LET l == ToFloat(step1.logic_score)
      a == ToFloat(step2.stage_score)
      b == ToFloat(step2.industry_score)
      c == ToFloat(step2.bm_score)
  IN IF Truthy(step2)
       THEN [ok |-> l.ok /\ a.ok /\ b.ok /\ c.ok, logic |-> l.v, axis |-> a.v + b.v + c.v]
       ELSE [ok |-> l.ok, logic |-> l.v, axis |-> 0]

\* Scores that fall back to the unweighted logic score when there is no
\* Stage-2 result.
compute_perspective_scores_unweighted(step1, step2) ==
  LET in == ScoreInputs(step1, step2)
      L == in.logic
      s == in.axis
  IN IF Truthy(step2)
       THEN [critical |-> Min(ScoreCap, RoundHalfEven(7 * L + 10 * s, 10)),
             neutral |-> Min(ScoreCap, RoundHalfEven(18 * L + 40 * s, 30)),
             positive |-> Min(ScoreCap, RoundHalfEven(15 * L + 50 * s, 30))]
       ELSE [critical |-> Min(ScoreCap, L), neutral |-> Min(ScoreCap, L),
             positive |-> Min(ScoreCap, L)]

\* normalized_step2 = axis / 30 * 100, so 0.3, 0.4 and 0.5 of it are axis,
\* 4/3 axis and 5/3 axis; each score is min(92, int(round(x))).
compute_perspective_scores(step1, step2) ==
  LET in == ScoreInputs(step1, step2)
      L == in.logic
      s == in.axis
      crit == IF <<L, s>> \in FloatBelowHalf
                THEN FloorDiv(7 * L + 10 * s, 10)
                ELSE RoundHalfEven(7 * L + 10 * s, 10)
  IN [critical |-> Min(ScoreCap, crit),
      neutral |-> Min(ScoreCap, RoundHalfEven(18 * L + 40 * s, 30)),
      positive |-> Min(ScoreCap, RoundHalfEven(15 * L + 50 * s, 30))]

\* final_score = max(0.0, min(92.0, 0.7 * logic + 0.3 * normalized_step2)),
\* kept in tenths (the model's inputs are integers).
compute_final_scores(step1, step2) ==
  LET in == ScoreInputs(step1, step2)
      t == Max(0, Min(10 * ScoreCap, 7 * in.logic + 10 * in.axis))
  IN [conservative |-> t, neutral |-> t, optimistic |-> t]

\* step1_json["pass_gate"] = logic_score >= 80
\* A gate that opens ten points earlier.
PassGate_low(logic_score) == logic_score >= GateThreshold - 10

PassGate(logic_score) == logic_score >= GateThreshold

\* The axis_scores of result_payload: the Stage-2 value, or "" when step2_json
\* is None or empty.
EmptyString == [t |-> "empty_string", v |-> 0]

axis_scores(step2) ==
  [stage |-> IF Truthy(step2) THEN step2.stage_score ELSE EmptyString,
   industry |-> IF Truthy(step2) THEN step2.industry_score ELSE EmptyString,
   bm |-> IF Truthy(step2) THEN step2.bm_score ELSE EmptyString]

\* A ladder whose thresholds are exclusive.
recommendation_for_strict(score) ==
  IF score > TopThreshold THEN REC_TOP
  ELSE IF score > MiddleThreshold THEN REC_MIDDLE
  ELSE REC_BOTTOM

recommendation_for(score) ==
  IF score >= TopThreshold THEN REC_TOP
  ELSE IF score >= MiddleThreshold THEN REC_MIDDLE
  ELSE REC_BOTTOM

derive_recommendations(scores) ==
  [k \in DOMAIN scores |-> recommendation_for(scores[k])]

\* ------------------------------------------------------------------------
\* Documents (the file_meta of main's target_files and their Drive content)
\* ------------------------------------------------------------------------
FileIds == <<"f1", "f2", "f3", "f4", "f5">>
FileNames == <<"a.md", "b.md", "c.md", "d.md", "e.md">>
DocTexts == <<"text1", "text2", "text3", "text4", "text5">>

file_meta(f) == [id |-> FileIds[f], name |-> FileNames[f], modifiedTime |-> "2024-01-01T00:00:00Z"]

get_file_text(f) == DocTexts[f]

\* main: step1_hash = hash_prompt(prompt_step1), step2_hash likewise, both
\* prompts being BASE_PROMPT.
step1_hash == hash_prompt(BASE_PROMPT)
step2_hash == hash_prompt(BASE_PROMPT)

KeyOf(f) ==
  compute_cache_key(file_meta(f).id, get_file_text(f), file_meta(f).modifiedTime, step1_hash, step2_hash)

RESULT_FOLDER == "results"

\* ------------------------------------------------------------------------
\* Exceptions and failures
\* ------------------------------------------------------------------------
Exc(type, msg) == [type |-> type, msg |-> msg]

UpstreamExc == Exc("ServerError", "upstream")
MalformedExc == Exc("ValueError", "Model did not return valid JSON")
DriveExc == Exc("HttpError", "drive")
FloatExc == Exc("ValueError", "could not convert string to float")

wrap_stage_error(stage, exc) == Exc("RuntimeError", "stage=" \o stage \o " | " \o exc.msg)

\* The messages of the batch model are shorter than the limit of line 640
\* and hold no newline: the line leaves them as they are (format_message
\* is that line on character sequences).
format_error_info(exc, file_id, file_name) ==
  [type |-> exc.type, message |-> exc.msg, file_id |-> file_id, file_name |-> file_name]

\* ensure_json_folder calls drive.get_drive_id, which DriveClient does not
\* define, and passes drive_id to get_or_create_folder(name, parent_id),
\* which does not take it: the call raises on every invocation.
ensure_json_folder ==
  [raised |-> TRUE,
   exc |-> Exc("AttributeError", "'DriveClient' object has no attribute 'get_drive_id'")]

\* ------------------------------------------------------------------------
\* Cache index (CacheStore.data["items"]) and its entries
\* ------------------------------------------------------------------------
EmptyItems == [k \in {} |-> 0]

NoEntry == [absent |-> TRUE]

\* CacheStore.get
\* A lookup that never finds an entry.
CacheGet_miss(items, key) == NoEntry

CacheGet(items, key) == IF key \in DOMAIN items THEN items[key] ELSE NoEntry

\* CacheStore.set
\* A set that drops the other entries of the index.
CacheSet_only(items, key, value) == [k \in {key} |-> value]

CacheSet(items, key, value) ==
  [k \in (DOMAIN items) \cup {key} |-> IF k = key THEN value ELSE items[k]]

\* The cache_entry of a completed evaluation.
cache_entry(f, now, step1, step2) ==
  LET scores == compute_perspective_scores(step1, step2)
      recs == derive_recommendations(scores)
  IN [file_id |-> file_meta(f).id,
      file_name |-> file_meta(f).name,
      source_folder |-> RESULT_FOLDER,
      timestamp |-> now,
      step1 |-> step1,
      step2 |-> step2,
      final_scores |-> compute_final_scores(step1, step2),
      perspective_scores |-> scores,
      recommendations |-> recs,
      final_verdict |-> recs.critical]

\* The fail_entry of the except branch of evaluate_file.
fail_entry(f, now, err_info) ==
  [file_id |-> file_meta(f).id,
   file_name |-> file_meta(f).name,
   source_folder |-> RESULT_FOLDER,
   timestamp |-> now,
   status |-> STATUS_FAILED,
   error |-> err_info]

IsFailEntry(e) == "status" \in DOMAIN e

IsRecord(e) == "step1" \in DOMAIN e

NoError == [type |-> "", message |-> "", file_id |-> "", file_name |-> ""]

Outcome(status, f, entry, err) == [status |-> status, file |-> file_meta(f).id, cache |-> entry, error |-> err]

\* ------------------------------------------------------------------------
\* State
\* ------------------------------------------------------------------------
VARIABLES
  blob,         \* items of the persisted cache_index.json
  cache,        \* items of the in-memory CacheStore of the running batch
  phase,        \* "idle", "running" (main is inside the executor block) or
                \* "aborted" (an exception left main; the next run starts over)
  force_rerun,  \* the force_rerun flag of the running batch
  batchNo,      \* number of batches started; also the coarse clock of kst_now
  task,         \* per document: the position and locals of its evaluate_file
  permits,      \* free permits of the semaphore shared by the batch
  results,      \* main's results list
  completed,    \* main's progress counter
  faults,       \* number of external calls that failed at least once (bounded)
  status_map,   \* st.session_state["status_map"]: the status shown per document
  probe         \* inputs and outputs of the pure functions under test

vars ==
  <<blob, cache, phase, force_rerun, batchNo, task, permits, results, completed, faults,
    status_map, probe>>

NoStep1 == [logic_score |-> Absent, pass_gate |-> FALSE, present |-> FALSE]

Step1Json(raw, gate) == [logic_score |-> raw, pass_gate |-> gate, present |-> TRUE]

NoOutcome == [status |-> STATUS_PENDING, file |-> "", cache |-> NoEntry, error |-> NoError]

IdleTask ==
  [pc |-> "idle", attempts |-> 0, cache_key |-> "", step1 |-> NoStep1, step2 |-> Step2Null,
   called |-> FALSE, out |-> NoOutcome, collected |-> FALSE]

QueuedTask == [IdleTask EXCEPT !.pc = "queued"]

Terminal == {STATUS_SKIPPED, STATUS_DONE, STATUS_FAILED}

Running(f) == task[f].pc \notin ({"idle", "queued"} \cup Terminal)

NoProbe == [kind |-> "none"]

\* ------------------------------------------------------------------------
\* Model outputs drawn by the batch model
\* ------------------------------------------------------------------------
Step1Outputs == {Num(79), Num(80), JText}
Step2Outputs == {Step2Obj(Num(5), Num(5), Num(10))}

\* ------------------------------------------------------------------------
\* Init
\* ------------------------------------------------------------------------
\* A blob written by an earlier deployment may already hold the complete
\* record of a document.
LegacyRecord(f) == cache_entry(f, 0, Step1Json(Num(85), TRUE), Step2Obj(Num(5), Num(5), Num(10)))

Init ==
  /\ blob \in {EmptyItems, CacheSet(EmptyItems, KeyOf(1), LegacyRecord(1))}
  /\ cache = EmptyItems
  /\ phase = "idle"
  /\ force_rerun = FALSE
  /\ batchNo = 0
  /\ task = [f \in Files |-> IdleTask]
  /\ permits = SemaphorePermits
  /\ results = <<>>
  /\ completed = 0
  /\ faults = 0
  /\ status_map = [f \in Files |-> STATUS_PENDING]
  /\ probe = NoProbe

\* ------------------------------------------------------------------------
\* evaluate_file: the except branch and the retry wrapper
\* ------------------------------------------------------------------------
\* except Exception: build the failure, cache it when cache_key is set,
\* return the failed outcome.  t holds the locals of the task at the raise.
RaiseFrom(f, t, exc) ==
  LET err == format_error_info(exc, file_meta(f).id, file_meta(f).name)
  IN /\ task' = [task EXCEPT ![f] =
                   [t EXCEPT !.pc = STATUS_FAILED, !.attempts = 0,
                             !.step1 = NoStep1, !.step2 = Step2Null,
                             !.out = Outcome(STATUS_FAILED, f, NoEntry, err)]]
     /\ cache' = IF t.cache_key # ""
                   THEN CacheSet(cache, t.cache_key, fail_entry(f, batchNo, err))
                   ELSE cache

Raise(f, exc) == RaiseFrom(f, task[f], exc)

\* _retry: one failed attempt of func.  After retries + 1 failed attempts
\* the last exception is raised wrapped with the stage name, otherwise the
\* call is attempted again.
RetryFailed(f, stage, exc, again) ==
  /\ task[f].attempts > 0 \/ faults < MaxFaultyCalls
  /\ faults' = IF task[f].attempts = 0 THEN faults + 1 ELSE faults
  /\ IF task[f].attempts >= Retries
       THEN Raise(f, wrap_stage_error(stage, exc))
       ELSE /\ task' = [task EXCEPT ![f].attempts = @ + 1, ![f].pc = again]
            /\ cache' = cache

\* Lines 502-513: scoring and rendering; the float() conversions of
\* compute_final_scores raise on a non-numeric axis score.
Merge(f, t) ==
  IF ~ScoreInputs(t.step1, t.step2).ok
    THEN RaiseFrom(f, t, FloatExc)
    ELSE /\ task' = [task EXCEPT ![f] = [t EXCEPT !.pc = "upload_report", !.attempts = 0]]
         /\ cache' = cache

\* ------------------------------------------------------------------------
\* main: start of a batch (lines 1137-1185)
\* ------------------------------------------------------------------------
StartBatch(T, fr) ==
  /\ phase \in {"idle", "aborted"}
  /\ batchNo < MaxBatches
  /\ T # {}
  /\ batchNo > 0 => Cardinality(T) <= MaxLaterBatch
  /\ phase' = "running"
  /\ batchNo' = batchNo + 1
  /\ force_rerun' = fr
  /\ cache' = blob
  /\ task' = [f \in Files |-> IF f \in T THEN QueuedTask ELSE IdleTask]
  /\ permits' = SemaphorePermits
  /\ results' = <<>>
  /\ completed' = 0
  /\ status_map' = [f \in Files |-> IF f \in T THEN STATUS_RUNNING ELSE status_map[f]]
  /\ UNCHANGED <<blob, faults, probe>>

\* ------------------------------------------------------------------------
\* evaluate_file, one step per external call
\* ------------------------------------------------------------------------
\* A pool worker takes the task and evaluate_file downloads the document
\* (lines 467-477).
Download(f, ok) ==
  /\ phase = "running"
  /\ \/ task[f].pc = "download"
     \/ /\ task[f].pc = "queued"
        /\ Cardinality({g \in Files : Running(g)}) < MaxWorkers
  /\ IF ok
       THEN LET key == KeyOf(f)
                cached == CacheGet(cache, key)
            IN /\ IF cached # NoEntry /\ ~force_rerun
                    THEN task' = [task EXCEPT ![f].pc = STATUS_SKIPPED, ![f].attempts = 0,
                                              ![f].cache_key = key,
                                              ![f].out = Outcome(STATUS_SKIPPED, f, cached, NoError)]
                    ELSE task' = [task EXCEPT ![f].pc = "step1", ![f].attempts = 0,
                                              ![f].cache_key = key]
               /\ UNCHANGED <<cache, faults>>
       ELSE RetryFailed(f, "download", DriveExc, "download")
  /\ UNCHANGED <<blob, phase, force_rerun, batchNo, permits, results, completed, status_map, probe>>

\* Evaluator._call_model: with self.semaphore, entry.
AcquirePermit(f) ==
  /\ phase = "running"
  /\ task[f].pc \in {"step1", "step2"}
  /\ permits > 0
  /\ permits' = permits - 1
  /\ task' = [task EXCEPT ![f].pc = IF @ = "step1" THEN "step1_call" ELSE "step2_call",
                          ![f].called = TRUE]
  /\ UNCHANGED <<blob, cache, phase, force_rerun, batchNo, results, completed, faults, status_map, probe>>

\* Evaluator._call_model: with self.semaphore, exit.  The with statement
\* releases the permit when generate_content returns and when it raises.
\* An exit that keeps the permit when the call raises.
semaphore_release_leak(free, raised) == IF raised THEN free ELSE free + 1

semaphore_release(free, raised) == free + 1

\* The Stage-1 model call ends: the permit is released, the response is
\* parsed, the gate is computed (lines 479-491).
Step1Return(f, resp) ==
  /\ phase = "running"
  /\ task[f].pc = "step1_call"
  /\ permits' = semaphore_release(permits, resp.kind = "raise")
  /\ IF resp.kind = "object"
       THEN LET lf == ToFloat(resp.logic_score)
                gate == PassGate(lf.v)
                t == [task[f] EXCEPT !.step1 = Step1Json(resp.logic_score, gate)]
            IN /\ IF ~lf.ok
                    THEN Raise(f, FloatExc)
                    ELSE IF gate
                      THEN /\ task' = [task EXCEPT ![f] = [t EXCEPT !.pc = "step2", !.attempts = 0]]
                           /\ cache' = cache
                      ELSE Merge(f, t)
               /\ faults' = faults
       ELSE RetryFailed(f, "step1", IF resp.kind = "raise" THEN UpstreamExc ELSE MalformedExc, "step1")
  /\ UNCHANGED <<blob, phase, force_rerun, batchNo, results, completed, status_map, probe>>

\* The Stage-2 model call ends (lines 492-500).
Step2Return(f, resp) ==
  /\ phase = "running"
  /\ task[f].pc = "step2_call"
  /\ permits' = semaphore_release(permits, resp.kind = "raise")
  /\ IF resp.kind = "object"
       THEN /\ Merge(f, [task[f] EXCEPT !.step2 = resp.step2])
            /\ faults' = faults
       ELSE RetryFailed(f, "step2", IF resp.kind = "raise" THEN UpstreamExc ELSE MalformedExc, "step2")
  /\ UNCHANGED <<blob, phase, force_rerun, batchNo, results, completed, status_map, probe>>

\* drive.upload_markdown of the report (line 515).
UploadReport(f, ok) ==
  /\ phase = "running"
  /\ task[f].pc = "upload_report"
  /\ IF ok
       THEN /\ task' = [task EXCEPT ![f].pc = "link_report", ![f].attempts = 0]
            /\ UNCHANGED <<cache, faults>>
       ELSE RetryFailed(f, "upload_report", DriveExc, "upload_report")
  /\ UNCHANGED <<blob, phase, force_rerun, batchNo, permits, results, completed, status_map, probe>>

\* drive.get_file_link of the report, then ensure_json_folder (lines
\* 516-518).  Were ensure_json_folder to return, the JSON uploads, the cache
\* write and the done outcome of lines 519-606 would follow.
LinkReport(f, ok) ==
  /\ phase = "running"
  /\ task[f].pc = "link_report"
  /\ IF ok
       THEN /\ IF ensure_json_folder.raised
                 THEN Raise(f, ensure_json_folder.exc)
                 ELSE LET t == task[f]
                          entry == cache_entry(f, batchNo, t.step1, t.step2)
                      IN /\ cache' = CacheSet(cache, t.cache_key, entry)
                         /\ task' = [task EXCEPT ![f] =
                                       [t EXCEPT !.pc = STATUS_DONE, !.attempts = 0,
                                                 !.step1 = NoStep1, !.step2 = Step2Null,
                                                 !.out = Outcome(STATUS_DONE, f, entry, NoError)]]
            /\ faults' = faults
       ELSE RetryFailed(f, "upload_report", DriveExc, "link_report")
  /\ UNCHANGED <<blob, phase, force_rerun, batchNo, permits, results, completed, status_map, probe>>

\* ------------------------------------------------------------------------
\* main: collection of the results and end of the batch (lines 1186-1202)
\* ------------------------------------------------------------------------
\* as_completed yields a finished future; its result is appended.
\* A collection that leaves the progress counter alone.
Collect_nocount(f) ==
  /\ phase = "running"
  /\ task[f].pc \in Terminal
  /\ ~task[f].collected
  /\ results' = Append(results, task[f].out)
  /\ completed' = completed
  /\ task' = [task EXCEPT ![f].collected = TRUE]
  /\ UNCHANGED <<blob, cache, phase, force_rerun, batchNo, permits, faults, status_map, probe>>

Collect(f) ==
  /\ phase = "running"
  /\ task[f].pc \in Terminal
  /\ ~task[f].collected
  /\ results' = Append(results, task[f].out)
  /\ completed' = completed + 1
  /\ task' = [task EXCEPT ![f].collected = TRUE]
  /\ UNCHANGED <<blob, cache, phase, force_rerun, batchNo, permits, faults, status_map, probe>>

\* All futures are collected; finally: cache.save().  save() uploads the
\* index with drive.upload_text outside any try/except and outside _retry:
\* when the upload raises, the exception leaves the finally block and main.
\* When it returns, lines 1204-1213 set the status of each result's document
\* in the status map.
FinishBatch(ok) ==
  /\ phase = "running"
  /\ \A f \in Files : task[f].pc # "idle" => task[f].collected
  /\ IF ok
       THEN /\ blob' = cache
            /\ phase' = "idle"
            /\ status_map' = [f \in Files |->
                               IF task[f].collected THEN task[f].out.status ELSE status_map[f]]
       ELSE /\ blob' = blob
            /\ phase' = "aborted"
            /\ status_map' = status_map
  /\ UNCHANGED <<cache, force_rerun, batchNo, task, permits, results, completed, faults, probe>>

Step1Responses ==
  {[kind |-> "raise"], [kind |-> "garbage"]} \cup {[kind |-> "object", logic_score |-> r] : r \in Step1Outputs}

Step2Responses ==
  {[kind |-> "raise"], [kind |-> "garbage"]} \cup {[kind |-> "object", step2 |-> r] : r \in Step2Outputs}

Next ==
  \/ \E T \in SUBSET Files, fr \in BOOLEAN : StartBatch(T, fr)
  \/ \E f \in Files, ok \in BOOLEAN : Download(f, ok)
  \/ \E f \in Files : AcquirePermit(f)
  \/ \E f \in Files, resp \in Step1Responses : Step1Return(f, resp)
  \/ \E f \in Files, resp \in Step2Responses : Step2Return(f, resp)
  \/ \E f \in Files, ok \in BOOLEAN : UploadReport(f, ok)
  \/ \E f \in Files, ok \in BOOLEAN : LinkReport(f, ok)
  \/ \E f \in Files : Collect(f)
  \/ \E ok \in BOOLEAN : FinishBatch(ok)

Spec == Init /\ [][Next]_vars

\* The batch under the scheduling the run time gives.  A task is one
\* thread: the external call it is at returns or raises, and when it waits
\* at the semaphore while a permit is free it takes it; the pool starts a
\* queued task when a worker is free.  main is one thread: it collects each
\* finished future and then leaves the executor block.  Nothing obliges the
\* user to start a batch.
TaskStep(f) ==
  \/ \E ok \in BOOLEAN : Download(f, ok)
  \/ AcquirePermit(f)
  \/ \E resp \in Step1Responses : Step1Return(f, resp)
  \/ \E resp \in Step2Responses : Step2Return(f, resp)
  \/ \E ok \in BOOLEAN : UploadReport(f, ok)
  \/ \E ok \in BOOLEAN : LinkReport(f, ok)

MainStep ==
  \/ \E f \in Files : Collect(f)
  \/ \E ok \in BOOLEAN : FinishBatch(ok)

Fairness == (\A f \in Files : WF_vars(TaskStep(f))) /\ WF_vars(MainStep)

SpecLive == Init /\ [][Next]_vars /\ Fairness

\* ------------------------------------------------------------------------
\* The scoring functions on their own: the inputs are drawn by InitScore,
\* ApplyScore runs lines 502-505 and builds the record, ApplyRec runs
\* recommendation_for.
\* ------------------------------------------------------------------------
LogicInputs == {Absent, JNull, JText} \cup {Num(n) : n \in LogicValues}
AxisInputs == {Absent} \cup {Num(n) : n \in AxisValues}
Step2Inputs == {Step2Null, Step2Empty} \cup {Step2Obj(a, b, c) : a, b, c \in AxisInputs}
ScoreRange == -20..120

Quiet ==
  /\ blob = EmptyItems
  /\ cache = EmptyItems
  /\ phase = "idle"
  /\ force_rerun = FALSE
  /\ batchNo = 0
  /\ task = [f \in Files |-> IdleTask]
  /\ permits = SemaphorePermits
  /\ results = <<>>
  /\ completed = 0
  /\ faults = 0
  /\ status_map = [f \in Files |-> STATUS_PENDING]

InitScore ==
  /\ Quiet
  /\ \/ \E l \in LogicInputs, s2 \in Step2Inputs :
          probe = [kind |-> "score_in", logic_score |-> l, step2 |-> s2]
     \/ \E n \in ScoreRange : probe = [kind |-> "rec_in", score |-> n]

ApplyScore ==
  /\ probe.kind = "score_in"
  /\ LET lf == ToFloat(probe.logic_score)
         step1 == Step1Json(probe.logic_score, PassGate(lf.v))
         step2 == IF lf.ok /\ step1.pass_gate THEN probe.step2 ELSE Step2Null
     IN IF lf.ok /\ ScoreInputs(step1, step2).ok
          THEN probe' = [kind |-> "score_out", step1 |-> step1, step2 |-> step2,
                         entry |-> cache_entry(1, 0, step1, step2)]
          ELSE probe' = [kind |-> "score_raised", step1 |-> step1, step2 |-> step2]
  /\ UNCHANGED <<blob, cache, phase, force_rerun, batchNo, task, permits, results, completed, faults, status_map>>

ApplyRec ==
  /\ probe.kind = "rec_in"
  /\ probe' = [kind |-> "rec_out", score |-> probe.score, label |-> recommendation_for(probe.score)]
  /\ UNCHANGED <<blob, cache, phase, force_rerun, batchNo, task, permits, results, completed, faults, status_map>>

NextScore == ApplyScore \/ ApplyRec

SpecScore == InitScore /\ [][NextScore]_vars

\* ------------------------------------------------------------------------
\* The fingerprint on its own: two evaluations a and b, their keys computed
\* as evaluate_file and main compute them.
\* ------------------------------------------------------------------------
KeyInputs ==
  [file_id : {"f1", "f2"}, content : {"x", "y"},
   modified_time : {"2024-01-01T00:00:00Z", "2024-01-02T00:00:00Z"},
   prompt_step1 : {"p", "q"}, prompt_step2 : {"p", "q"}]

KeyOfInputs(e) ==
  compute_cache_key(e.file_id, e.content, e.modified_time,
                    hash_prompt(e.prompt_step1), hash_prompt(e.prompt_step2))

InitKey ==
  /\ Quiet
  /\ \E a, b \in KeyInputs : probe = [kind |-> "key_in", a |-> a, b |-> b]

ApplyKey ==
  /\ probe.kind = "key_in"
  /\ probe' = [kind |-> "key_out", a |-> probe.a, b |-> probe.b,
               ka |-> KeyOfInputs(probe.a), kb |-> KeyOfInputs(probe.b)]
  /\ UNCHANGED <<blob, cache, phase, force_rerun, batchNo, task, permits, results, completed, faults, status_map>>

NextKey == ApplyKey

SpecKey == InitKey /\ [][NextKey]_vars

\* ------------------------------------------------------------------------
\* The persisted index on its own: the cache_index.json file of the results
\* folder, CacheStore.load and CacheStore.save, and two sessions of the
\* application (two runs of main, each with its own CacheStore) that share
\* the file.  The state of this part is held in probe.
\* ------------------------------------------------------------------------
\* A JSON object is a function from its keys to their values.
EmptyObject == [k \in {} |-> 0]

ObjGet(obj, key, default) == IF key \in DOMAIN obj THEN obj[key] ELSE default

\* The text of a file: blank (empty or whitespace only), not JSON, or the
\* JSON text of a value.
BlankText == [kind |-> "blank"]
GarbageText == [kind |-> "garbage"]
JsonText(value) == [kind |-> "json", value |-> value]

JArray == [t |-> "array"]
JNumber == [t |-> "number"]
JString == [t |-> "string"]
JNullValue == [t |-> "null"]
JObject(obj) == [t |-> "object", obj |-> obj]

\* json.loads: JSONDecodeError on a text that is not JSON (the empty text
\* included), the value otherwise.
json_loads(text) ==
  IF text.kind = "json" THEN [raised |-> FALSE, value |-> text.value]
  ELSE [raised |-> TRUE, value |-> JNullValue]

\* json_loads_safe: the dict, or {} for a decode error or a non-dict.
\* A variant that lets the decode error through.
json_loads_unsafe(text) ==
  LET r == json_loads(text)
  IN IF r.raised THEN [raised |-> TRUE, obj |-> EmptyObject]
     ELSE IF r.value.t = "object" THEN [raised |-> FALSE, obj |-> r.value.obj]
     ELSE [raised |-> FALSE, obj |-> EmptyObject]

json_loads_safe(text) ==
  LET r == json_loads(text)
  IN IF r.raised THEN [raised |-> FALSE, obj |-> EmptyObject]
     ELSE IF r.value.t = "object" THEN [raised |-> FALSE, obj |-> r.value.obj]
     ELSE [raised |-> FALSE, obj |-> EmptyObject]

\* DriveClient.download_json: {} for a blank text, json_loads_safe otherwise.
download_json(text) ==
  IF text.kind = "blank" THEN [raised |-> FALSE, obj |-> EmptyObject]
  ELSE json_loads_safe(text)

\* The cache file of the results folder: absent, or present with a text.
NoFile == [exists |-> FALSE, text |-> BlankText]
FileOf(text) == [exists |-> TRUE, text |-> text]

EmptyIndex == [version |-> 1, meta |-> EmptyObject, items |-> EmptyItems]

\* CacheStore.load
CacheLoad(file) ==
  IF ~file.exists THEN [raised |-> FALSE, data |-> EmptyIndex]
  ELSE LET payload == download_json(file.text)
       IN IF payload.raised THEN [raised |-> TRUE, data |-> EmptyIndex]
          ELSE [raised |-> FALSE,
                data |-> [version |-> ObjGet(payload.obj, "version", 1),
                          meta |-> ObjGet(payload.obj, "meta", EmptyObject),
                          items |-> ObjGet(payload.obj, "items", EmptyItems)]]

\* json_dumps(self.data), the text CacheStore.save uploads.
json_dumps(data) ==
  JsonText(JObject([k \in {"version", "meta", "items"} |-> data[k]]))

\* CacheStore.save: upload_text replaces the content of the file.
CacheSave(data) == FileOf(json_dumps(data))

\* evaluate_file as the index sees it, from the lookup to the return: fail
\* names the call that fails after its retries ("none": no call fails).
evaluate_file_items(items, f, fr, fail) ==
  LET key == KeyOf(f)
      failed(exc) ==
        CacheSet(items, key,
                 fail_entry(f, 1, format_error_info(exc, file_meta(f).id, file_meta(f).name)))
  IN IF fail = "download" THEN items
     ELSE IF CacheGet(items, key) # NoEntry /\ ~fr THEN items
     ELSE IF fail = "step1" THEN failed(wrap_stage_error("step1", UpstreamExc))
     ELSE IF ensure_json_folder.raised THEN failed(ensure_json_folder.exc)
     ELSE CacheSet(items, key, cache_entry(f, 1, Step1Json(Num(79), FALSE), Step2Null))

Sessions == {1, 2}
StoreFiles == {1, 2}
StoreFails == {"none", "download", "step1"}

LegacyItems == CacheSet(EmptyItems, KeyOf(1), LegacyRecord(1))

\* Contents the cache file may have when a session starts.
InitFiles ==
  {NoFile, FileOf(BlankText), FileOf(GarbageText)}
  \cup {FileOf(JsonText(v)) : v \in {JArray, JNumber, JString, JNullValue}}
  \cup {FileOf(JsonText(JObject(EmptyObject))),
        FileOf(JsonText(JObject([version |-> 2, meta |-> EmptyObject]))),
        FileOf(JsonText(JObject([items |-> LegacyItems]))),
        CacheSave([version |-> 1, meta |-> EmptyObject, items |-> LegacyItems])}

NoSession == [st |-> "none", data |-> EmptyIndex]

\* The items a load of the file gives.
FileItems(file) == CacheLoad(file).data.items

InitStore ==
  /\ Quiet
  /\ \E file \in InitFiles :
       probe = [kind |-> "store", file |-> file,
                sess |-> [s \in Sessions |-> NoSession],
                kept |-> DOMAIN FileItems(file)]

StoreUnchanged ==
  UNCHANGED <<blob, cache, phase, force_rerun, batchNo, task, permits, results, completed, faults, status_map>>

\* main, lines 1137-1142 (and 1019-1040): a run builds its CacheStore and
\* loads the file.
StoreLoad(s) ==
  /\ probe.kind = "store"
  /\ probe.sess[s].st = "none"
  /\ LET r == CacheLoad(probe.file)
     IN probe' = [probe EXCEPT !.sess[s] =
                    IF r.raised THEN [st |-> "crashed", data |-> EmptyIndex]
                    ELSE [st |-> "loaded", data |-> r.data]]
  /\ StoreUnchanged

\* One evaluate_file of the batch of session s.
StoreEvaluate(s, f, fr, fail) ==
  /\ probe.kind = "store"
  /\ probe.sess[s].st = "loaded"
  /\ probe' = [probe EXCEPT !.sess[s].data.items = evaluate_file_items(@, f, fr, fail)]
  /\ StoreUnchanged

\* main, lines 1200-1202: the batch of session s ends and saves its index;
\* kept collects the fingerprints a successfully saved file has held.
StoreSave(s, ok) ==
  /\ probe.kind = "store"
  /\ probe.sess[s].st = "loaded"
  /\ probe' = [probe EXCEPT !.sess[s] = NoSession,
                            !.file = IF ok THEN CacheSave(probe.sess[s].data) ELSE @,
                            !.kept = IF ok THEN @ \cup DOMAIN probe.sess[s].data.items ELSE @]
  /\ StoreUnchanged

\* The run of session s is interrupted before its save.
StoreInterrupt(s) ==
  /\ probe.kind = "store"
  /\ probe.sess[s].st = "loaded"
  /\ probe' = [probe EXCEPT !.sess[s] = NoSession]
  /\ StoreUnchanged

NextStore ==
  \/ \E s \in Sessions : StoreLoad(s)
  \/ \E s \in Sessions, f \in StoreFiles, fr \in BOOLEAN, fail \in StoreFails :
       StoreEvaluate(s, f, fr, fail)
  \/ \E s \in Sessions, ok \in BOOLEAN : StoreSave(s, ok)
  \/ \E s \in Sessions : StoreInterrupt(s)

SpecStore == InitStore /\ [][NextStore]_vars

\* ------------------------------------------------------------------------
\* Rendering on its own: render_report and build_sheet_row applied to the
\* record of an evaluation at two moments.  Headings and the "(none)"
\* placeholder of the source are Korean; they are written in ASCII.
\* ------------------------------------------------------------------------
\* str() of a raw JSON value inside an f-string.
FormatRaw(raw) ==
  IF raw.t = "num" THEN ToString(raw.v)
  ELSE IF raw.t = "null" THEN "None"
  ELSE IF raw.t = "text" THEN "high"
  ELSE ""

\* _get(d, key, default)
ReportGet(d, key, default) == ObjGet(d, key, default)

NonePlaceholder == "(none)"

OrNone(text) == IF text = "" THEN NonePlaceholder ELSE text

\* file_name.rsplit(".", 1)[0]
FileStems == <<"a", "b", "c", "d", "e">>
StemOf(file_name) == FileStems[CHOOSE i \in DOMAIN FileNames : FileNames[i] = file_name]

\* _extract_company_name
extract_company_name(file_name, step1) ==
  LET company_name == ReportGet(step1, "company_name", "")
  IN IF company_name # "" THEN company_name ELSE StemOf(file_name)

\* The verdicts the report's docstring names.
RecognizedVerdicts == {"READ NOW", "WATCH", "DROP"}

\* The lines of render_report; now is datetime.now(tz=kst) formatted as
\* %y.%m.%d.  Fields the model's outputs do not carry take the default
\* their _get gives.
report_lines(file_name, step1, step2, perspective_scores, recommendations, final_verdict, now) ==
  LET company_name == extract_company_name(file_name, step1)
      logic_score == FormatRaw(ReportGet(step1, "logic_score", Absent))
      declared == ReportGet(step1, "final_verdict", "")
      step1_final == IF declared # "" THEN declared ELSE final_verdict
      axis(k) == IF Truthy(step2) THEN FormatRaw(step2[k]) ELSE ""
  IN <<"# " \o company_name \o " analysis " \o now,
       "",
       "summary: " \o ReportGet(step1, "one_line_summary", ""),
       "",
       "## Filtering result",
       "- class: " \o OrNone(step1_final),
       "- total score: " \o logic_score \o " / 100 (cap 92)",
       "- message: " \o NonePlaceholder,
       "- exception tag: " \o NonePlaceholder,
       "",
       "## Scores",
       "| view | score | recommendation |",
       "|---|---|---|",
       "| Critical | " \o ToString(perspective_scores.critical) \o " | " \o recommendations.critical \o " |",
       "| Neutral | " \o ToString(perspective_scores.neutral) \o " | " \o recommendations.neutral \o " |",
       "| Positive | " \o ToString(perspective_scores.positive) \o " | " \o recommendations.positive \o " |",
       "",
       "## Overall summary",
       NonePlaceholder,
       "",
       "## Final Verdict",
       OrNone(step1_final),
       "",
       "## Debug",
       "- Step1 logic_score: " \o logic_score,
       "- Step2 axis score (stage/industry/BM): " \o axis("stage_score") \o " / "
          \o axis("industry_score") \o " / " \o axis("bm_score")>>

RECURSIVE JoinLines(_)
JoinLines(lines) ==
  IF Len(lines) = 0 THEN ""
  ELSE IF Len(lines) = 1 THEN lines[1]
  ELSE lines[1] \o "\n" \o JoinLines(Tail(lines))

render_report(file_name, step1, step2, perspective_scores, recommendations, final_verdict, now) ==
  JoinLines(report_lines(file_name, step1, step2, perspective_scores, recommendations, final_verdict, now))

\* The line under the "## Final Verdict" heading.
VerdictLine(lines) == lines[1 + CHOOSE i \in DOMAIN lines : lines[i] = "## Final Verdict"]

\* build_sheet_row; now is kst_now(), read only when the entry has no
\* timestamp.
build_sheet_row(entry, source_folder_id, now) ==
  LET step1 == ObjGet(entry, "step1", EmptyObject)
      perspective_scores == ObjGet(entry, "perspective_scores", EmptyObject)
      recommendations == ObjGet(entry, "recommendations", EmptyObject)
      step2 == ObjGet(entry, "step2", EmptyObject)
  IN [timestamp |-> ObjGet(entry, "timestamp", now),
      file_id |-> ObjGet(entry, "file_id", ""),
      file_name |-> ObjGet(entry, "file_name", ""),
      source_folder |-> source_folder_id,
      company_name |-> ObjGet(step1, "company_name", ""),
      score_critical |-> ObjGet(perspective_scores, "critical", ""),
      score_neutral |-> ObjGet(perspective_scores, "neutral", ""),
      score_positive |-> ObjGet(perspective_scores, "positive", ""),
      recommendation_critical |-> ObjGet(recommendations, "critical", ""),
      recommendation_neutral |-> ObjGet(recommendations, "neutral", ""),
      recommendation_positive |-> ObjGet(recommendations, "positive", ""),
      axis_scores_json |-> axis_scores(step2),
      final_verdict |-> ObjGet(entry, "final_verdict", ""),
      report_file_url |-> ObjGet(entry, "report_file_url", "")]

\* A Stage-1 output that also declares a verdict ("": it declares none).
Step1Declared(raw, gate, verdict) ==
  LET base == Step1Json(raw, gate)
  IN IF verdict = "" THEN base
     ELSE [k \in DOMAIN base \cup {"final_verdict"} |->
             IF k = "final_verdict" THEN verdict ELSE base[k]]

RenderLogic == {Absent} \cup {Num(n) : n \in LogicValues}
DeclaredVerdicts == {"", "READ NOW", "DROP", "MAYBE"}
RenderDates == {"26.11.04", "26.11.05"}

InitRender ==
  /\ Quiet
  /\ \E l \in RenderLogic, v \in DeclaredVerdicts, d1, d2 \in RenderDates :
       probe = [kind |-> "render_in", logic_score |-> l, declared |-> v, now1 |-> d1, now2 |-> d2]

\* Lines 487-513 on a model output, then the record, and the record
\* rendered at the two moments.
ApplyRender ==
  /\ probe.kind = "render_in"
  /\ LET lf == ToFloat(probe.logic_score)
         step1 == Step1Declared(probe.logic_score, PassGate(lf.v), probe.declared)
         step2 == IF step1.pass_gate THEN Step2Obj(Num(5), Num(5), Num(10)) ELSE Step2Null
         entry == cache_entry(1, 1, step1, step2)
         lines(now) == report_lines(entry.file_name, entry.step1, entry.step2,
                                    entry.perspective_scores, entry.recommendations,
                                    entry.final_verdict, now)
         md(now) == render_report(entry.file_name, entry.step1, entry.step2,
                                  entry.perspective_scores, entry.recommendations,
                                  entry.final_verdict, now)
     IN probe' = [kind |-> "render_out", logic_score |-> probe.logic_score,
                  declared |-> probe.declared, now1 |-> probe.now1, now2 |-> probe.now2,
                  entry |-> entry,
                  md1 |-> md(probe.now1), md2 |-> md(probe.now2),
                  verdict_line |-> VerdictLine(lines(probe.now1)),
                  row1 |-> build_sheet_row(entry, RESULT_FOLDER, probe.now1),
                  row2 |-> build_sheet_row(entry, RESULT_FOLDER, probe.now2)]
  /\ UNCHANGED <<blob, cache, phase, force_rerun, batchNo, task, permits, results, completed, faults, status_map>>

SpecRender == InitRender /\ [][ApplyRender]_vars

\* ------------------------------------------------------------------------
\* Parsing of a model response on its own (evaluator.py 61-106).  A response
\* text is a sequence of tokens: the braces and brackets, "1" a number, "s"
\* a string literal, "x" a word that is not JSON, "W" whitespace, "FO" an
\* opening code fence with its newline and "FC" a newline and a closing
\* fence.  JSON values are the number, the string, the empty object, the
\* empty array and the array of one value.
\* ------------------------------------------------------------------------
Tokens == {"{", "}", "[", "]", "1", "s", "x", "W", "FO", "FC"}

RECURSIVE SeqsUpTo(_, _)
SeqsUpTo(S, n) ==
  IF n = 0 THEN {<<>>}
  ELSE LET shorter == SeqsUpTo(S, n - 1)
       IN shorter \cup {Append(q, t) : q \in {r \in shorter : Len(r) = n - 1}, t \in S}

\* str.strip()
RECURSIVE Strip(_)
Strip(q) ==
  IF Len(q) = 0 THEN q
  ELSE IF q[1] = "W" THEN Strip(Tail(q))
  ELSE IF q[Len(q)] = "W" THEN Strip(SubSeq(q, 1, Len(q) - 1))
  ELSE q

EmptyObjectText == <<"{", "}">>

\* Evaluator._call_model: response.text or "{}"
call_model_text(text) == IF Len(text) = 0 THEN EmptyObjectText ELSE text

\* Lines 78-83: strip, then remove a wrapping pair of code fences.
strip_fences(text) ==
  LET q == Strip(text)
  IN IF Len(q) >= 2 /\ q[1] = "FO" /\ q[Len(q)] = "FC"
       THEN Strip(SubSeq(q, 2, Len(q) - 1))
       ELSE q

\* _extract_json_object
extract_json_object(text) ==
  IF Len(text) = 0 THEN EmptyObjectText
  ELSE LET q == strip_fences(text)
           opens == {i \in DOMAIN q : q[i] = "{"}
           closes == {i \in DOMAIN q : q[i] = "}"}
           start == CHOOSE i \in opens : \A j \in opens : i <= j
           end == CHOOSE i \in closes : \A j \in closes : i >= j
       IN IF Len(q) > 0 /\ q[1] = "{" /\ q[Len(q)] = "}" THEN q
          ELSE IF opens # {} /\ closes # {} /\ end > start
            THEN Strip(SubSeq(q, start, end))
          ELSE q

\* json.loads on a token text: the kind of the value, or a decode error.
RECURSIVE IsJsonValue(_)
IsJsonValue(q) ==
  \/ q \in {<<"1">>, <<"s">>, <<"{", "}">>, <<"[", "]">>}
  \/ /\ Len(q) >= 3
     /\ q[1] = "["
     /\ q[Len(q)] = "]"
     /\ IsJsonValue(SubSeq(q, 2, Len(q) - 1))

NoWhitespace(q) == SelectSeq(q, LAMBDA t : t # "W")

json_loads_tokens(text) ==
  LET q == NoWhitespace(text)
  IN IF ~IsJsonValue(q) THEN [raised |-> TRUE, t |-> "none"]
     ELSE [raised |-> FALSE,
           t |-> IF q[1] = "{" THEN "object"
                 ELSE IF q[1] = "[" THEN "array"
                 ELSE IF q[1] = "1" THEN "number" ELSE "string"]

NonObjectExc == Exc("ValueError", "Model returned non-object JSON")

\* json_load
json_load(text) ==
  LET r == json_loads_tokens(extract_json_object(text))
  IN IF r.raised THEN [raised |-> TRUE, exc |-> MalformedExc]
     ELSE IF r.t # "object" THEN [raised |-> TRUE, exc |-> NonObjectExc]
     ELSE [raised |-> FALSE, exc |-> Exc("", "")]

\* evaluate_step1 / evaluate_step2: json_load(self._call_model(prompt))
evaluate_step(text) == json_load(call_model_text(text))

InitParse ==
  /\ Quiet
  /\ \E text \in SeqsUpTo(Tokens, MaxRespLen) : probe = [kind |-> "parse_in", text |-> text]

ApplyParse ==
  /\ probe.kind = "parse_in"
  /\ probe' = [kind |-> "parse_out", text |-> probe.text, result |-> evaluate_step(probe.text)]
  /\ UNCHANGED <<blob, cache, phase, force_rerun, batchNo, task, permits, results, completed, faults, status_map>>

SpecParse == InitParse /\ [][ApplyParse]_vars

\* ------------------------------------------------------------------------
\* The structured failure on its own: line 640 of format_error_info on the
\* characters of an exception text, and the failure list main builds from
\* the results of a batch (lines 1204-1213).
\* ------------------------------------------------------------------------
\* An exception text of n characters with a newline at the positions nl.
MessageOf(n, nl) == [i \in 1..n |-> IF i \in nl THEN "\n" ELSE "a"]

\* str(exc).replace("\n", " ")[:300]
\* The same without the slice.
format_message_long(chars) ==
  [i \in 1..Len(chars) |-> IF chars[i] = "\n" THEN " " ELSE chars[i]]

format_message(chars) ==
  LET replaced == [i \in 1..Len(chars) |-> IF chars[i] = "\n" THEN " " ELSE chars[i]]
  IN SubSeq(replaced, 1, Min(MessageLimit, Len(replaced)))

\* format_error_info on the characters of str(exc).
format_error_chars(type, chars, file_id, file_name) ==
  [type |-> type, message |-> format_message(chars), file_id |-> file_id, file_name |-> file_name]

\* main, lines 1204-1213: the errors of the failed results, in order.
RECURSIVE failed_list(_)
failed_list(res) ==
  IF Len(res) = 0 THEN <<>>
  ELSE IF res[1].status = STATUS_FAILED /\ res[1].error # NoError
    THEN <<res[1].error>> \o failed_list(Tail(res))
    ELSE failed_list(Tail(res))

MessageLengths == {0, 1, MessageLimit - 1, MessageLimit, MessageLimit + 1, MessageLimit + 50}
NewlinePositions == {1, MessageLimit, MessageLimit + 1}

InitFail ==
  /\ Quiet
  /\ \E status \in [Files -> {STATUS_SKIPPED, STATUS_FAILED}], n \in MessageLengths,
        nl \in SUBSET NewlinePositions :
       /\ nl \subseteq 1..n
       /\ probe = [kind |-> "fail_in", status |-> status, n |-> n, nl |-> nl]

\* The except branch of evaluate_file for the failing documents, then the
\* failure list of main.
ApplyFail ==
  /\ probe.kind = "fail_in"
  /\ LET outcome(f) ==
           IF probe.status[f] = STATUS_FAILED
             THEN Outcome(STATUS_FAILED, f, NoEntry,
                          format_error_chars("RuntimeError", MessageOf(probe.n, probe.nl),
                                             file_meta(f).id, file_meta(f).name))
             ELSE Outcome(STATUS_SKIPPED, f, LegacyRecord(f), NoError)
         res == [f \in Files |-> outcome(f)]
     IN probe' = [kind |-> "fail_out", status |-> probe.status, n |-> probe.n, nl |-> probe.nl,
                  results |-> res, failed |-> failed_list(res)]
  /\ UNCHANGED <<blob, cache, phase, force_rerun, batchNo, task, permits, results, completed, faults, status_map>>

SpecFail == InitFail /\ [][ApplyFail]_vars

\* ------------------------------------------------------------------------
\* The prompts on their own: two builds a and b of the application, each
\* with its BASE_PROMPT, PROMPT_APPENDIX and schema hints, evaluate the same
\* document; the texts they send to the model and the fingerprints they
\* compute.
\* ------------------------------------------------------------------------
\* Evaluator._build_prompt
build_prompt(prompt, schema_hint, content) ==
  prompt \o "\n\nJSON schema hints:\n" \o schema_hint
         \o "\n\nIR full text:\n" \o content \o "\n\nReturn JSON only."

\* Evaluator._build_prompt_with_step1
build_prompt_with_step1(prompt, schema_hint, content, step1_block) ==
  prompt \o "\n\nJSON schema hints:\n" \o schema_hint
         \o "\n\nSTEP1 JSON:\n" \o step1_block
         \o "\n\nIR full text:\n" \o content \o "\n\nReturn JSON only."

PromptBuilds ==
  [base : {BASE_PROMPT, "base v2"}, appendix : {PROMPT_APPENDIX, "appendix v2"},
   hint1 : {"hint1", "hint1 v2"}, hint2 : {"hint2", "hint2 v2"}]

\* Lines 481-485: the Stage-1 text of a build for the document text.
step1_prompt_of(build, content) ==
  build_prompt(build.base \o "\n\n" \o build.appendix, build.hint1, content)

\* Lines 494-499: the Stage-2 text of a build.
step2_prompt_of(build, content, step1_block) ==
  build_prompt_with_step1(build.base \o "\n\n" \o build.appendix, build.hint2, content, step1_block)

\* Lines 1154-1157 and 474: both hashes are taken of BASE_PROMPT alone.
KeyOfBuild(build, f) ==
  compute_cache_key(file_meta(f).id, get_file_text(f), file_meta(f).modifiedTime,
                    hash_prompt(build.base), hash_prompt(build.base))

InitPrompt ==
  /\ Quiet
  /\ \E a, b \in PromptBuilds : probe = [kind |-> "prompt_in", a |-> a, b |-> b]

\* Build a evaluates document 1 and caches its record; build b then looks
\* the document up in that index (lines 474-477).
ApplyPrompt ==
  /\ probe.kind = "prompt_in"
  /\ LET ka == KeyOfBuild(probe.a, 1)
         kb == KeyOfBuild(probe.b, 1)
         items == CacheSet(EmptyItems, ka, LegacyRecord(1))
         block == "{}"
     IN probe' = [kind |-> "prompt_out", a |-> probe.a, b |-> probe.b,
                  sent1a |-> step1_prompt_of(probe.a, get_file_text(1)),
                  sent1b |-> step1_prompt_of(probe.b, get_file_text(1)),
                  sent2a |-> step2_prompt_of(probe.a, get_file_text(1), block),
                  sent2b |-> step2_prompt_of(probe.b, get_file_text(1), block),
                  ka |-> ka, kb |-> kb,
                  cached |-> CacheGet(items, kb)]
  /\ UNCHANGED <<blob, cache, phase, force_rerun, batchNo, task, permits, results, completed, faults, status_map>>

SpecPrompt == InitPrompt /\ [][ApplyPrompt]_vars

\* ------------------------------------------------------------------------
\* Publishing on its own: the results folder as Drive holds it (files with
\* an id, a name, a MIME type and a content) and the report uploads of two
\* documents of the source folder, each upload being the two requests of
\* DriveClient.upload_text.  Drive identifies a document by its id: two
\* documents of a folder may carry the same name.
\* ------------------------------------------------------------------------
MaxUploads == 2

UploadDocs == {1, 2}
UploadNames == {FileNames[1], FileNames[2]}

\* Line 514
report_name(file_name) == file_name \o ".report.md"

\* The files the list request of find_file_in_folder matches.
find_file_in_folder(folder, name, mime_type) ==
  {x \in folder : x.name = name /\ x.mime = mime_type}

NoUpload == [pc |-> "idle", existing |-> 0, id |-> 0, runs |-> 0]

InitUpload ==
  /\ Quiet
  /\ \E names \in [UploadDocs -> UploadNames] :
       probe = [kind |-> "upload", names |-> names, folder |-> {}, next_id |-> 1,
                up |-> [d \in UploadDocs |-> NoUpload]]

\* upload_text, line 95: the list request; existing is the first file of
\* the answer (any of the matching files), or none (0).
UploadFind(d) ==
  /\ probe.kind = "upload"
  /\ probe.up[d].pc \in {"idle", "done"}
  /\ probe.up[d].runs < MaxUploads
  /\ LET found == find_file_in_folder(probe.folder, report_name(probe.names[d]), "text/markdown")
     IN \E e \in (IF found = {} THEN {0} ELSE {x.id : x \in found}) :
          probe' = [probe EXCEPT !.up[d].pc = "write", !.up[d].existing = e]
  /\ StoreUnchanged

\* upload_text, lines 96-106: the update of the file found, or the creation
\* of a new file; the content is the report of document d's evaluation.
UploadWrite(d) ==
  /\ probe.kind = "upload"
  /\ probe.up[d].pc = "write"
  /\ LET u == probe.up[d]
         content == [doc |-> d, run |-> u.runs + 1]
         created == [id |-> probe.next_id, name |-> report_name(probe.names[d]),
                     mime |-> "text/markdown", content |-> content]
     IN IF u.existing # 0
          THEN probe' = [probe EXCEPT
                 !.folder = {IF x.id = u.existing THEN [x EXCEPT !.content = content] ELSE x : x \in @},
                 !.up[d] = [pc |-> "done", existing |-> 0, id |-> u.existing, runs |-> u.runs + 1]]
          ELSE probe' = [probe EXCEPT
                 !.folder = @ \cup {created},
                 !.next_id = @ + 1,
                 !.up[d] = [pc |-> "done", existing |-> 0, id |-> created.id, runs |-> u.runs + 1]]
  /\ StoreUnchanged

SpecUpload ==
  InitUpload /\ [][\E d \in UploadDocs : UploadFind(d) \/ UploadWrite(d)]_vars

\* ------------------------------------------------------------------------
\* The flush of the index on its own: the control flow of main's batch
\* section (try / with ThreadPoolExecutor / for future in as_completed /
\* finally cache.save()), with evaluate_file as the index sees it.  The
\* statements of the loop body that can raise are the progress calls of
\* lines 1198-1199; future.result() cannot, evaluate_file catching every
\* exception.
\* ------------------------------------------------------------------------
\* The exit of the with block: ThreadPoolExecutor.__exit__ is
\* shutdown(wait=True), which returns when no task of the pool is running,
\* whether the block is left normally or by an exception.
\* An exit that does not wait when the block is left by an exception.
ExecutorExit_nowait(pending, raised) == raised \/ pending = {}

ExecutorExit(pending, raised) == pending = {}

InitRun ==
  /\ Quiet
  /\ \E file \in {NoFile, CacheSave([EmptyIndex EXCEPT !.items = LegacyItems])}, fr \in BOOLEAN :
       probe = [kind |-> "run", st |-> "loop", raised |-> FALSE, force_rerun |-> fr,
                file |-> file, data |-> CacheLoad(file).data,
                pending |-> Files, collected |-> {}, set_keys |-> {},
                saves |-> 0, uploaded |-> FALSE]

\* A worker runs evaluate_file for f to its return; set_keys collects the
\* fingerprints the batch has set an entry for.
RunTask(f, fail) ==
  /\ probe.kind = "run"
  /\ f \in probe.pending
  /\ LET items == evaluate_file_items(probe.data.items, f, probe.force_rerun, fail)
     IN probe' = [probe EXCEPT !.pending = @ \ {f},
                               !.data.items = items,
                               !.set_keys = IF items # probe.data.items THEN @ \cup {KeyOf(f)} ELSE @]
  /\ StoreUnchanged

\* One iteration of the loop of lines 1186-1199 for the finished future of
\* f; raises: a progress call of the iteration raises.
RunCollect(f, raises) ==
  /\ probe.kind = "run"
  /\ probe.st = "loop"
  /\ f \notin probe.pending
  /\ f \notin probe.collected
  /\ probe' = [probe EXCEPT !.collected = @ \cup {f},
                            !.st = IF raises THEN "unwinding" ELSE @,
                            !.raised = raises]
  /\ StoreUnchanged

\* The with block is left (all futures collected, or the loop raised) and
\* the finally clause calls cache.save(); ok: the upload of the index
\* succeeds.
RunFinally(ok) ==
  /\ probe.kind = "run"
  /\ probe.st \in {"loop", "unwinding"}
  /\ probe.st = "loop" => probe.collected = Files
  /\ ExecutorExit(probe.pending, probe.raised)
  /\ probe' = [probe EXCEPT !.st = "ended",
                            !.saves = @ + 1,
                            !.uploaded = ok,
                            !.file = IF ok THEN CacheSave(probe.data) ELSE @]
  /\ StoreUnchanged

SpecRun ==
  InitRun /\ [][\/ \E f \in Files, fail \in StoreFails : RunTask(f, fail)
                \/ \E f \in Files, raises \in BOOLEAN : RunCollect(f, raises)
                \/ \E ok \in BOOLEAN : RunFinally(ok)]_vars

\* ------------------------------------------------------------------------
\* Vocabulary of the properties
\* ------------------------------------------------------------------------
CallPcs == {"step1_call", "step2_call"}

InFlight == {f \in Files : task[f].pc \in CallPcs}

Targets == {f \in Files : task[f].pc # "idle"}

\* Position of a task in the pipeline of evaluate_file.
Rank(pc) ==
  CASE pc \in {"idle", "queued"} -> 0
    [] pc = "download" -> 1
    [] pc \in {"step1", "step1_call"} -> 2
    [] pc \in {"step2", "step2_call"} -> 3
    [] pc = "upload_report" -> 4
    [] pc = "link_report" -> 5
    [] OTHER -> 6

\* The stage tag _retry gives to the call a task is at.
StageTag(pc) ==
  CASE pc \in {"queued", "download"} -> "download"
    [] pc \in {"step1", "step1_call"} -> "step1"
    [] pc \in {"step2", "step2_call"} -> "step2"
    [] OTHER -> "upload_report"

OracleFailureMessages ==
  {"stage=step1 | upstream", "stage=step1 | Model did not return valid JSON",
   "stage=step2 | upstream", "stage=step2 | Model did not return valid JSON"}

ExternalFailureMessages ==
  OracleFailureMessages \cup {"stage=download | drive", "stage=upload_report | drive"}

LogicOf(t) == IF t.step1.logic_score.t = "num" THEN t.step1.logic_score.v ELSE 0

PerspectiveKeys == {"critical", "neutral", "positive"}

\* ------------------------------------------------------------------------
\* C1
\* ------------------------------------------------------------------------
\* C1: when evaluate_file reaches the cache lookup for a document whose
\* fingerprint has an entry in the cache and force_rerun is false, it returns
\* status skipped carrying exactly that entry, it has made no model call, and
\* the cache index is unchanged; a skipped task makes no model call later.
C1_CacheHitSkips ==
  /\ [](\A f \in Files : task[f].pc = STATUS_SKIPPED =>
          /\ ~task[f].called
          /\ ~force_rerun
          /\ KeyOf(f) \in DOMAIN cache
          /\ task[f].out.status = STATUS_SKIPPED
          /\ task[f].out.cache = cache[KeyOf(f)])
  /\ [][\A f \in Files :
          (/\ phase = "running"
           /\ task[f].pc \in {"queued", "download"}
           /\ task'[f].pc \notin {"queued", "download", STATUS_FAILED}
           /\ KeyOf(f) \in DOMAIN cache
           /\ ~force_rerun)
          => (/\ task'[f].pc = STATUS_SKIPPED
              /\ task'[f].out.cache = cache[KeyOf(f)]
              /\ cache' = cache)]_vars

C1_Witness ==
  \E f \in Files :
    /\ task[f].pc = STATUS_SKIPPED
    /\ IsRecord(task[f].out.cache)
    /\ task[f].out.cache = cache[KeyOf(f)]
    /\ \E g \in Files : g # f /\ task[g].called

\* ------------------------------------------------------------------------
\* C2
\* ------------------------------------------------------------------------
\* C2: a task waits for or runs Stage 2 only after Stage 1 has returned with
\* logic_score >= 80, and it enters Stage 2 directly from the return of
\* Stage 1; past the gate, a Stage-2 result exists iff logic_score >= 80, and
\* when the gate is false step2_json is null and the axis scores are empty.
C2_GateConsistency ==
  /\ [](\A f \in Files :
          /\ task[f].pc \in {"queued", "download", "step1", "step1_call"} =>
               (~task[f].step1.present /\ task[f].step2 = Step2Null)
          /\ task[f].pc \in {"step2", "step2_call"} =>
               (task[f].step1.present /\ LogicOf(task[f]) >= 80 /\ task[f].step1.pass_gate)
          /\ task[f].pc \in {"upload_report", "link_report"} =>
               /\ task[f].step1.present
               /\ task[f].step1.pass_gate <=> (LogicOf(task[f]) >= 80)
               /\ (task[f].step2 # Step2Null) <=> (LogicOf(task[f]) >= 80)
               /\ LogicOf(task[f]) < 80 =>
                    axis_scores(task[f].step2) =
                      [stage |-> EmptyString, industry |-> EmptyString, bm |-> EmptyString])
  /\ [][\A f \in Files :
          (task'[f].pc \in {"step2", "step2_call"} /\ task[f].pc \notin {"step2", "step2_call"})
          => (task[f].pc = "step1_call" /\ LogicOf(task'[f]) >= 80)]_vars

C2_Witness ==
  \E f, g \in Files :
    /\ task[f].pc = "step2_call" /\ LogicOf(task[f]) = 80
    /\ task[g].pc = "upload_report" /\ LogicOf(task[g]) = 79 /\ task[g].step2 = Step2Null

\* ------------------------------------------------------------------------
\* C3
\* ------------------------------------------------------------------------
\* C3: when a batch has ended in which no storage call failed and no model
\* output was non-numeric, it has one outcome per document, and an outcome
\* has status failed, with a structured failure, exactly when the oracle
\* failed for its document after the retries; every other outcome is a
\* successful record.
C3_BatchIsolation ==
  (/\ phase = "idle"
   /\ batchNo > 0
   /\ \A i \in 1..Len(results) :
        /\ results[i].error.type # "ValueError"
        /\ results[i].error.message \notin ExternalFailureMessages \ OracleFailureMessages)
  => /\ Len(results) = Cardinality(Targets)
     /\ \A i \in 1..Len(results) :
          /\ results[i].status = STATUS_FAILED <=> results[i].error.message \in OracleFailureMessages
          /\ results[i].status = STATUS_FAILED => results[i].error.type # ""
          /\ results[i].status # STATUS_FAILED => results[i].cache # NoEntry

\* ------------------------------------------------------------------------
\* C4
\* ------------------------------------------------------------------------
\* C4: while a batch runs, a document whose evaluation failed at an external
\* call (retries exhausted) has in the cache, under its fingerprint, exactly
\* what the cache held when the batch loaded it.
C4_NothingCachedOnFailure ==
  \A f \in Files :
    (/\ phase = "running"
     /\ task[f].pc = STATUS_FAILED
     /\ task[f].out.error.message \in ExternalFailureMessages)
    => CacheGet(cache, KeyOf(f)) = CacheGet(blob, KeyOf(f))

\* ------------------------------------------------------------------------
\* C5
\* ------------------------------------------------------------------------
\* C5: at most 2 model calls are in flight over all documents of the batch;
\* every call in flight holds one permit of the gate, and the number of free
\* permits is never negative.
C5_AtMostTwoInFlight ==
  /\ Cardinality(InFlight) <= 2
  /\ permits >= 0
  /\ permits + Cardinality(InFlight) = SemaphorePermits

C5_Witness ==
  /\ Cardinality(InFlight) = 2
  /\ permits = 0
  /\ \E f \in Files : task[f].pc \in {"step1", "step2"}

\* ------------------------------------------------------------------------
\* C6
\* ------------------------------------------------------------------------
\* C6: with force_rerun and an entry already cached under the fingerprint, a
\* task never returns skipped, and when its evaluation has ended without a
\* failed external call and without a non-numeric model output, the outcome
\* is done and the cache entry of the fingerprint is exactly the new record.
C6_ForcedRerunReplaces ==
  \A f \in Files :
    (/\ phase = "running"
     /\ force_rerun
     /\ KeyOf(f) \in DOMAIN blob
     /\ task[f].pc \in Terminal
     /\ task[f].out.error.message \notin ExternalFailureMessages
     /\ task[f].out.error.type # "ValueError")
    => /\ task[f].pc = STATUS_DONE
       /\ IsRecord(CacheGet(cache, KeyOf(f)))
       /\ CacheGet(cache, KeyOf(f)) = task[f].out.cache

\* ------------------------------------------------------------------------
\* C7
\* ------------------------------------------------------------------------
\* C7: each of the three perspective scores of a record is in 0..92.
C7_ScoresInRange ==
  probe.kind = "score_out" =>
    \A k \in PerspectiveKeys :
      probe.entry.perspective_scores[k] \in 0..92

KeyFields == {"file_id", "content", "modified_time", "prompt_step1", "prompt_step2"}

Differing(a, b) == {k \in KeyFields : a[k] # b[k]}

C9_Ladder ==
  /\ probe.kind = "rec_out" =>
       probe.label = IF probe.score >= 80 THEN REC_TOP
                     ELSE IF probe.score >= 70 THEN REC_MIDDLE ELSE REC_BOTTOM
  /\ probe.kind = "score_out" =>
       \A k \in PerspectiveKeys :
         probe.entry.recommendations[k] =
           IF probe.entry.perspective_scores[k] >= 80 THEN REC_TOP
           ELSE IF probe.entry.perspective_scores[k] >= 70 THEN REC_MIDDLE ELSE REC_BOTTOM

C9_Witness ==
  /\ probe.kind = "score_out"
  /\ probe.entry.perspective_scores.critical = 80
  /\ probe.entry.recommendations.critical = REC_TOP
  /\ probe.entry.perspective_scores.neutral \in 70..79
  /\ probe.entry.recommendations.neutral = REC_MIDDLE

\* ------------------------------------------------------------------------
\* C10
\* ------------------------------------------------------------------------
\* C10: a call is at its first, second or third attempt; a stage whose
\* result exists is not called again; a task never moves back to an earlier
\* stage; and a task that ends on a wrapped error does so at the third failed
\* attempt of the call it was at, with the error tagged by that call's stage.
C10_BoundedRetry ==
  /\ [](\A f \in Files :
          /\ task[f].attempts \in 0..2
          /\ task[f].step1.present => Rank(task[f].pc) > 2
          /\ task[f].step2 # Step2Null => Rank(task[f].pc) > 3)
  /\ [][\A f \in Files :
          phase = "running" /\ phase' = "running" =>
            /\ Rank(task'[f].pc) >= Rank(task[f].pc)
            /\ (Rank(task'[f].pc) = Rank(task[f].pc) /\ task[f].pc \notin Terminal)
                 => task'[f].attempts \in {task[f].attempts, task[f].attempts + 1}
            /\ (/\ task[f].pc \notin Terminal
                /\ task'[f].pc = STATUS_FAILED
                /\ task'[f].out.error.type = "RuntimeError")
                 => /\ task[f].attempts = 2
                    /\ \E m \in {"upstream", "Model did not return valid JSON", "drive"} :
                         task'[f].out.error.message = "stage=" \o StageTag(task[f].pc) \o " | " \o m]_vars

C10_Witness ==
  \E f \in Files :
    /\ task[f].pc = STATUS_FAILED
    /\ task[f].out.error.message = "stage=step2 | upstream"

\* ------------------------------------------------------------------------
\* C11
\* ------------------------------------------------------------------------
\* C11: no failure of an external call of a batch run, the write of the
\* cache index at its end included, leaves the batch run: main is never
\* aborted by an exception, and every outcome with a failure is a
\* per-document failure.
C11_NoFailureEscapes ==
  /\ phase # "aborted"
  /\ \A i \in 1..Len(results) :
       results[i].status = STATUS_FAILED =>
         \E f \in Files : results[i].error.file_id = file_meta(f).id

\* ------------------------------------------------------------------------
\* C12
\* ------------------------------------------------------------------------
Unreadable(file) ==
  \/ ~file.exists
  \/ file.text.kind \in {"blank", "garbage"}
  \/ file.text.value.t # "object"

\* C12: CacheStore.load never raises on a missing, empty, non-JSON or
\* non-object file; in each of these cases the index after the load is the
\* empty index (version 1, empty meta, no items), and otherwise its items
\* are exactly the items of the persisted object.
C12_LoadDegrades ==
  [][\A s \in Sessions :
       (probe.kind = "store" /\ probe.sess[s].st = "none" /\ probe'.sess[s].st # "none")
       => /\ probe'.sess[s].st = "loaded"
          /\ Unreadable(probe.file) => probe'.sess[s].data = EmptyIndex
          /\ ~Unreadable(probe.file) =>
               probe'.sess[s].data.items =
                 IF "items" \in DOMAIN probe.file.text.value.obj
                   THEN probe.file.text.value.obj.items ELSE EmptyItems]_vars

C12_Witness ==
  /\ probe.kind = "store"
  /\ probe.file = FileOf(GarbageText)
  /\ \E s \in Sessions : probe.sess[s] = [st |-> "loaded", data |-> EmptyIndex]

\* ------------------------------------------------------------------------
\* C13
\* ------------------------------------------------------------------------
\* C13: a fingerprint that a successfully saved cache file has held an
\* entry for still has an entry (that one or the one of a re-evaluation)
\* in the file after every later save.
C13_SavedEntriesKept ==
  probe.kind = "store" => \A k \in probe.kept : k \in DOMAIN FileItems(probe.file)

\* ------------------------------------------------------------------------
\* C14
\* ------------------------------------------------------------------------
\* C14: every cache write a task of the batch has made is in the in-memory
\* index, whatever the interleaving of the tasks, and once the batch has
\* saved, in the blob: the index holds under the task's fingerprint the
\* entry that task wrote.
C14_NoLostWrite ==
  \A f \in Files :
    (task[f].pc \in {STATUS_DONE, STATUS_FAILED} /\ task[f].cache_key # "")
    => LET e == CacheGet(cache, task[f].cache_key)
       IN /\ e # NoEntry
          /\ task[f].pc = STATUS_DONE => e = task[f].out.cache
          /\ task[f].pc = STATUS_FAILED => (IsFailEntry(e) /\ e.error = task[f].out.error)
          /\ (phase = "idle" /\ batchNo > 0) => CacheGet(blob, task[f].cache_key) = e

C14_Witness ==
  /\ phase = "idle"
  /\ batchNo = 1
  /\ \E f, g \in Files :
       /\ f # g
       /\ \A h \in {f, g} :
            /\ task[h].pc = STATUS_FAILED
            /\ task[h].out.error.type = "AttributeError"
            /\ IsFailEntry(CacheGet(blob, task[h].cache_key))
            /\ CacheGet(blob, task[h].cache_key).file_id = file_meta(h).id

C19_MalformedFieldTolerated ==
  \A f \in Files :
    task[f].pc = STATUS_FAILED => task[f].out.error.type # FloatExc.type

\* ------------------------------------------------------------------------
\* C15
\* ------------------------------------------------------------------------
\* C15: the same record rendered at two moments gives the same Markdown
\* and the same sheet row.
C15_RenderIdempotent ==
  probe.kind = "render_out" =>
    /\ probe.md1 = probe.md2
    /\ probe.row1 = probe.row2

\* ------------------------------------------------------------------------
\* C17
\* ------------------------------------------------------------------------
\* C17: the final verdict of a record is the verdict the Stage-1 output
\* declares when it is a recognized one, and otherwise the 80/70 ladder
\* applied to the logic score; the verdict line of the report is the same
\* value.
C17_VerdictSource ==
  probe.kind = "render_out" =>
    LET expected ==
          IF probe.declared \in RecognizedVerdicts THEN probe.declared
          ELSE recommendation_for(ToFloat(probe.logic_score).v)
    IN /\ probe.entry.final_verdict = expected
       /\ probe.verdict_line = expected

\* ------------------------------------------------------------------------
\* C18
\* ------------------------------------------------------------------------
\* C18: a response that, once its code fences are stripped, is not a single
\* JSON object (text that is not JSON, the empty text, an array, a number,
\* a string) makes the model call fail and gives no stage result.
C18_NonObjectFails ==
  probe.kind = "parse_out" =>
    (NoWhitespace(strip_fences(probe.text)) # EmptyObjectText => probe.result.raised)

TasksTerminate ==
  /\ \A f \in Files : (task[f].pc = "queued") ~> (task[f].pc \in Terminal)
  /\ \A f \in Files : (task[f].pc \in {"step1", "step2"}) ~> (task[f].pc \notin {"step1", "step2"})
  /\ (phase = "running") ~> (phase # "running")

\* C21: when a batch run has ended, every document of the batch has exactly
\* one terminal status among skipped, done and failed: its evaluation has
\* returned with that status and the status map shows it, no document is
\* left in the running state.
C21_AllTerminal ==
  (phase # "running" /\ batchNo > 0) =>
    \A f \in Targets :
      /\ task[f].pc \in Terminal
      /\ task[f].out.status = task[f].pc
      /\ status_map[f] = task[f].pc

\* ------------------------------------------------------------------------
\* C22
\* ------------------------------------------------------------------------
\* C22: every external call of an evaluation runs inside _retry, so a
\* document fails at an external call only with the error _retry raises
\* after the third failed attempt of that call (the stage-tagged
\* RuntimeError); the only other failure is the ValueError of a float()
\* conversion, which is no external call.
C22_EveryCallRetried ==
  \A f \in Files :
    (task[f].pc = STATUS_FAILED /\ task[f].out.error.type # FloatExc.type)
    => /\ task[f].out.error.type = "RuntimeError"
       /\ task[f].out.error.message \in ExternalFailureMessages

\* ------------------------------------------------------------------------
\* C23
\* ------------------------------------------------------------------------
\* C23: when the text sent to the model for Stage 1 or for Stage 2 differs
\* between two builds (base prompt, appended instructions or schema hint),
\* their fingerprints of the same document differ, and the record the
\* older build cached is not returned to the newer one as a cache hit.
C23_PromptChangeInvalidates ==
  probe.kind = "prompt_out" =>
    ((probe.sent1a # probe.sent1b \/ probe.sent2a # probe.sent2b)
       => (probe.ka # probe.kb /\ probe.cached = NoEntry))

\* ------------------------------------------------------------------------
\* C24
\* ------------------------------------------------------------------------
\* C24: after any sequence of uploads the folder holds at most one file per
\* (name, MIME type), so an upload under an existing name has created no
\* second file, and the artifact of a document whose upload has returned
\* holds the content that document's evaluation produced.
C24_IdempotentPublishing ==
  probe.kind = "upload" =>
    /\ \A x, y \in probe.folder : (x.name = y.name /\ x.mime = y.mime) => x = y
    /\ \A d \in UploadDocs :
         probe.up[d].pc = "done" =>
           \E x \in probe.folder : x.id = probe.up[d].id /\ x.content.doc = d

\* ------------------------------------------------------------------------
\* C25
\* ------------------------------------------------------------------------
\* C25: the logic_score kept in the record is in 0..100 whatever number the
\* model returned, and the gate and the perspective scores are those of the
\* score clamped into 0..100.
C25_LogicScoreClamped ==
  probe.kind = "score_out" =>
    LET kept == ToFloat(probe.entry.step1.logic_score).v
        clamped == Max(0, Min(100, ToFloat(probe.step1.logic_score).v))
    IN /\ kept \in 0..100
       /\ probe.entry.step1.pass_gate = (clamped >= 80)
       /\ probe.entry.perspective_scores =
            compute_perspective_scores(Step1Json(Num(clamped), clamped >= 80), probe.entry.step2)

\* ------------------------------------------------------------------------
\* C26
\* ------------------------------------------------------------------------
\* C26: cache.save() is called once per batch and not before every task of
\* the batch has returned, also when tasks failed or the collection loop
\* raised; the cache file changes in no other step, and after a save whose
\* upload succeeded the file holds the in-memory index, which has an entry
\* for every fingerprint set during the batch.
C26_FlushAtEnd ==
  /\ [](probe.kind = "run" =>
          /\ probe.saves = IF probe.st = "ended" THEN 1 ELSE 0
          /\ (probe.st = "ended" /\ probe.uploaded) =>
               /\ probe.pending = {}
               /\ FileItems(probe.file) = probe.data.items
               /\ probe.set_keys \subseteq DOMAIN FileItems(probe.file))
  /\ [][probe.kind = "run" =>
          /\ probe'.saves # probe.saves => probe.pending = {}
          /\ probe'.file # probe.file =>
               (probe'.saves = probe.saves + 1 /\ probe'.file = CacheSave(probe.data))]_vars

C26_Witness ==
  /\ probe.kind = "run"
  /\ probe.st = "ended"
  /\ probe.raised
  /\ probe.uploaded
  /\ probe.collected # Files
  /\ Cardinality(probe.set_keys) = 3
  /\ \E k \in probe.set_keys : IsFailEntry(FileItems(probe.file)[k])

\* ------------------------------------------------------------------------
\* C27
\* ------------------------------------------------------------------------
\* C27: a document that was not a cache hit and whose evaluation has ended
\* with no failed external call (download, model calls, uploads, link
\* lookups) and no non-numeric model output has status done, and the cache
\* holds under its fingerprint the record of that evaluation: the Stage-1
\* result, the Stage-2 result or null, the perspective scores, the
\* recommendations and the final verdict.
C27_SuccessIsDone ==
  \A f \in Files :
    (/\ task[f].pc \in Terminal
     /\ task[f].called
     /\ task[f].out.error.message \notin ExternalFailureMessages
     /\ task[f].out.error.type # FloatExc.type)
    => /\ task[f].pc = STATUS_DONE
       /\ task[f].out.status = STATUS_DONE
       /\ LET e == CacheGet(cache, task[f].cache_key)
          IN /\ e = task[f].out.cache
             /\ {"step1", "step2", "perspective_scores", "recommendations", "final_verdict"}
                  \subseteq DOMAIN e

\* ------------------------------------------------------------------------
\* C28
\* ------------------------------------------------------------------------
\* C28: every outcome with status skipped carries the record of a completed
\* evaluation (a Stage-1 result and perspective scores), never the entry of
\* a failed one: a document whose cached entry is a failure entry is not
\* reported as a cache hit.
C28_SkippedCarriesRecord ==
  \A f \in Files :
    task[f].out.status = STATUS_SKIPPED
    => /\ IsRecord(task[f].out.cache)
       /\ "perspective_scores" \in DOMAIN task[f].out.cache
       /\ ~IsFailEntry(task[f].out.cache)

\* ------------------------------------------------------------------------
\* C29
\* ------------------------------------------------------------------------
\* C29: the permit of a model call is released when the call ends, whether
\* it returns or raises, so whenever no model call is in flight both
\* permits are free; and every task waiting at the gate is eventually
\* admitted: from some point on no task waits at the gate.
C29_NoPermitLeak ==
  /\ [](InFlight = {} => permits = 2)
  /\ [][\A f \in Files :
          (task[f].pc \in CallPcs /\ task'[f].pc \notin CallPcs) => permits' = permits + 1]_vars
  /\ <>[](\A f \in Files : task[f].pc \notin {"step1", "step2"})

C29_Witness ==
  \E f, g \in Files :
    /\ task[f].pc = "step1_call"
    /\ task[f].attempts = 2
    /\ permits = 0
    /\ task[g].pc = "step1"

\* ------------------------------------------------------------------------
\* C30
\* ------------------------------------------------------------------------
\* C30: for a Stage-1 score below 80 the Stage-2 result is null and adds
\* nothing to a perspective score: each score is the weighted logic score
\* alone (at most 0.7 * 79.99..., below the middle threshold 70), so the
\* three recommendations and the final verdict are the bottom label.
C30_GateFailIsBottom ==
  (probe.kind = "score_out" /\ ToFloat(probe.step1.logic_score).v < 80) =>
    /\ probe.entry.step2 = Step2Null
    /\ \A k \in PerspectiveKeys :
         /\ probe.entry.perspective_scores[k] <= 56
         /\ probe.entry.recommendations[k] = REC_BOTTOM
    /\ probe.entry.final_verdict = REC_BOTTOM

C30_Witness ==
  /\ probe.kind = "score_out"
  /\ probe.step1.logic_score = Num(79)
  /\ probe.entry.perspective_scores = [critical |-> 55, neutral |-> 47, positive |-> 40]
  /\ probe.entry.final_verdict = REC_BOTTOM
====
